---- MODULE Spec2Model ----
(***************************************************************************)
(* Model of the asset catalog server (server/routes.ts, shared schema).    *)
(*                                                                         *)
(* Text values (attribute values, file names, folder paths) are sequences  *)
(* of one-character strings, so that template interpolation, split('/'),   *)
(* padStart and path.extname are computed character by character.         *)
(* Identifiers handed out by the stores are opaque to the program; the     *)
(* model names each after the call that made the store hand it out.        *)
(***************************************************************************)
EXTENDS Integers, Sequences, FiniteSets, TLC

\* ------------------------------------------------------------------ bounds

\* Files per upload request.
MaxFiles == 2
\* Storage / database / filesystem failures injected in one behaviour.
MaxFailures == 1
\* Clock ticks (one tick is one calendar month).
MaxTime == 1
\* Length of an uploaded file's original name.
MaxNameLen == 3
\* Rows of a queried table.
MaxRows == 2

\* The clock starts in December 2025: ticks 0 and 1 are 2025-12 and 2026-01,
\* so one- and two-digit months and a change of year all occur.
Epoch == [year |-> 2025, month0 |-> 11]

\* The two request slots. Spec and SpecDerive run slot 1 alone; SpecRace
\* runs both.
Reqs == {1, 2}

\* ------------------------------------------------------- JavaScript values

\* A field absent from req.body.
undefined == <<"undefined">>
\* SQL NULL / JavaScript null.
null == <<"null">>

\* The booleans of a column that may also hold NULL.
true == <<"true">>
false == <<"false">>

\* `${x}` in a template literal.
Interpolate(x) ==
  IF x = undefined THEN <<"u", "n", "d", "e", "f", "i", "n", "e", "d">>
  ELSE IF x = null THEN <<"n", "u", "l", "l">>
  ELSE x

\* Variant: a test for undefined in place of truthiness (sensitivity of C14).
Defined(x) == x # undefined

\* JavaScript truthiness of a string-or-undefined value.
Truthy(x) == x # undefined /\ x # null /\ x # <<>>

\* a || b
OrElse(a, b) == IF Truthy(a) THEN a ELSE b

Digit(d) == <<"0", "1", "2", "3", "4", "5", "6", "7", "8", "9">>[d + 1]

\* Number.prototype.toString() of a natural number.
RECURSIVE NumToString(_)
NumToString(n) ==
  IF n < 10 THEN <<Digit(n)>>
  ELSE NumToString(n \div 10) \o <<Digit(n % 10)>>

\* String.prototype.padStart(n, c) for a one-character pad string.
RECURSIVE PadStart(_, _, _)
PadStart(s, n, c) == IF Len(s) >= n THEN s ELSE PadStart(<<c>> \o s, n, c)

\* Index of the first occurrence of character c in s at or after i, 0 if none.
RECURSIVE IndexOf(_, _, _)
IndexOf(s, c, i) ==
  IF i > Len(s) THEN 0
  ELSE IF s[i] = c THEN i
  ELSE IndexOf(s, c, i + 1)

\* String.prototype.split(c) for a one-character separator: the pieces
\* between separators, empty pieces included.
RECURSIVE Split(_, _)
Split(s, c) ==
  LET i == IndexOf(s, c, 1)
  IN  IF i = 0 THEN <<s>>
      ELSE <<SubSeq(s, 1, i - 1)>> \o Split(SubSeq(s, i + 1, Len(s)), c)

\* String.prototype.trim() (blanks only).
RECURSIVE Trim(_)
Trim(s) ==
  IF s = <<>> THEN s
  ELSE IF Head(s) = " " THEN Trim(Tail(s))
  ELSE IF s[Len(s)] = " " THEN Trim(SubSeq(s, 1, Len(s) - 1))
  ELSE s

\* Array.prototype.map(tag => tag.trim()).
MapTrim(parts) == [i \in 1..Len(parts) |-> Trim(parts[i])]

\* ---------------------------------------------------------- path.extname

\* The backward scan of Node's posix path.extname: st is
\* [startDot, startPart, end, matchedSlash, preDotState, stop].
ExtScanStep(path, st, i) ==
  IF st.stop THEN st
  ELSE IF path[i] = "/"
    THEN IF ~st.matchedSlash
           THEN [st EXCEPT !.startPart = i + 1, !.stop = TRUE]
           ELSE st
    ELSE LET s1 == IF st.end = -1
                     THEN [st EXCEPT !.matchedSlash = FALSE, !.end = i + 1]
                     ELSE st
         IN  IF path[i] = "."
               THEN IF s1.startDot = -1
                      THEN [s1 EXCEPT !.startDot = i]
                      ELSE IF s1.preDotState # 1
                             THEN [s1 EXCEPT !.preDotState = 1]
                             ELSE s1
               ELSE IF s1.startDot # -1
                      THEN [s1 EXCEPT !.preDotState = -1]
                      ELSE s1

RECURSIVE ExtScan(_, _, _)
ExtScan(path, st, i) ==
  IF i < 1 THEN st ELSE ExtScan(path, ExtScanStep(path, st, i), i - 1)

\* path.extname(path). Indices here are 1-based: JavaScript's startDot,
\* startPart and end are st.startDot - 1, st.startPart - 1 and st.end - 1.
ExtName(path) ==
  LET st == ExtScan(path,
                    [startDot |-> -1, startPart |-> 1, end |-> -1,
                     matchedSlash |-> TRUE, preDotState |-> 0, stop |-> FALSE],
                    Len(path))
  IN  IF \/ st.startDot = -1
         \/ st.end = -1
         \/ st.preDotState = 0
         \/ /\ st.preDotState = 1
            /\ st.startDot = st.end - 1
            /\ st.startDot = st.startPart + 1
        THEN <<>>
        ELSE SubSeq(path, st.startDot, st.end - 1)

\* ------------------------------------------------------------ identifiers

\* The well-known root of the Drive namespace ('root').
Root == <<"root", 0, 0, 0>>
\* The marker stored in place of a Drive id when the file stays on disk.
Local == <<"local", 0, 0, 0>>
\* The id Drive returns for the folder that request p creates for segment
\* seg of the path of its i-th file (each such call happens at most once, so
\* the ids are distinct).
FolderId(p, i, seg) == <<"folder", p, i, seg>>
\* The id Drive returns for the file that request p creates for its i-th file.
FileId(p, i) == <<"file", p, i, 0>>
\* The primary key the database generates (gen_random_uuid()) for the row of
\* request p's i-th file.
AssetId(p, i) == <<"asset", p, i, 0>>

\* const version = 1; // TODO: Check for existing versions
Version == 1

\* ----------------------------------------------------- derivation of names

\* new Date().getFullYear() at clock tick t.
Year(t) == Epoch.year + ((Epoch.month0 + t) \div 12)

\* Variant: getMonth() without the + 1 (sensitivity of C13).
MonthZeroBased(t) == (Epoch.month0 + t) % 12

\* new Date().getMonth() + 1 at clock tick t.
Month(t) == ((Epoch.month0 + t) % 12) + 1

\* Variant: the month without padStart (sensitivity of C1).
UnpaddedMonth(month) == NumToString(month)

\* month.toString().padStart(2, '0')
PaddedMonth(month) == PadStart(NumToString(month), 2, "0")

\* `${resort || 'Brand'}`
ResortOrBrand(resort) == Interpolate(OrElse(resort, <<"B", "r", "a", "n", "d">>))

\* `${year}_${mm}_${region}_${resort || 'Brand'}_${assetType}_V${version}`
FilenameStem(body, year, month, version) ==
  NumToString(year) \o <<"_">> \o PaddedMonth(month) \o <<"_">>
    \o Interpolate(body.region) \o <<"_">>
    \o ResortOrBrand(body.resort) \o <<"_">>
    \o Interpolate(body.assetType) \o <<"_", "V">> \o NumToString(version)

\* Variant: the whole original name appended (sensitivity of C2).
FullFilenameKeepsName(body, file, year, month, version) ==
  FilenameStem(body, year, month, version) \o file.originalname

\* Variant: the name multer gave the file is part of the stored filename,
\* which makes it unique (sensitivity of C30).
FullFilenameUnique(body, file, year, month, version) ==
  FilenameStem(body, year, month, version)
    \o <<"_">> \o NumToString(file.filename[2]) \o ExtName(file.originalname)

\* `${filename}${extension}` with extension = path.extname(file.originalname)
FullFilename(body, file, year, month, version) ==
  FilenameStem(body, year, month, version) \o ExtName(file.originalname)

\* `Assets/${category}/${region}/${state}/${resort || 'Brand'}/${year}/${mm}/${assetType}`
FolderPath(body, year, month) ==
  <<"A", "s", "s", "e", "t", "s", "/">>
    \o Interpolate(body.category) \o <<"/">>
    \o Interpolate(body.region) \o <<"/">>
    \o Interpolate(body.state) \o <<"/">>
    \o ResortOrBrand(body.resort) \o <<"/">>
    \o NumToString(year) \o <<"/">>
    \o PaddedMonth(month) \o <<"/">>
    \o Interpolate(body.assetType)

\* file.mimetype.startsWith('image/')
IsImage(file) == file.mimetype.type = "image"

\* `/uploads/${file.filename}`
LocalLink(file) == <<"/uploads/", file.filename>>

\* The assetData object literal.
AssetData(body, file, l) ==
  [filename            |-> l.fullFilename,
   originalName        |-> file.originalname,
   category            |-> body.category,
   assetType           |-> body.assetType,
   region              |-> body.region,
   state               |-> body.state,
   resort              |-> OrElse(body.resort, null),
   year                |-> l.year,
   month               |-> l.month,
   version             |-> l.version,
   fileSize            |-> file.size,
   mimeType            |-> file.mimetype,
   googleDriveFileId   |-> l.driveFileId,
   googleDriveFolderId |-> l.driveFolderId,
   driveLink           |-> l.driveLink,
   versionsLink        |-> l.versionsLink,
   thumbnailUrl        |-> l.thumbnailUrl,
   tags                |-> IF Truthy(body.tags)
                             THEN MapTrim(Split(body.tags, ","))
                             ELSE <<>>]

\* insertAssetSchema.parse succeeds: the NOT NULL text columns of the table,
\* which the insert schema makes required strings, are present. (An empty
\* string is a string: z.string() accepts it. The other required fields are
\* always set by the handler.)
ValidInsert(data) ==
  /\ data.category # undefined
  /\ data.assetType # undefined
  /\ data.region # undefined
  /\ data.state # undefined

\* ------------------------------------------------------------ Drive store

\* Variant: the lookup ignores the current parent (sensitivity of C3).
ChildFoldersUnderRoot(store, parentId, name) ==
  {f \in store : f.name = name /\ f.parent = Root}

\* drive.files.list with q = name='..' and '<parent>' in parents and
\* mimeType = folder: the folders named `name` directly under `parentId`.
ChildFolders(store, parentId, name) ==
  {f \in store : f.name = name /\ f.parent = parentId}

\* The for loop's `if (!folderName) continue`: the first index at or after i
\* of a non-empty segment, Len(segs) + 1 when the loop is over.
RECURSIVE NextSegment(_, _)
NextSegment(segs, i) ==
  IF i > Len(segs) THEN i
  ELSE IF segs[i] = <<>> THEN NextSegment(segs, i + 1)
  ELSE i

\* ------------------------------------------------------------------ state

VARIABLES
  drive,        \* whether the Drive client was configured at start-up
  folders,      \* Drive: the folders, [id, name, parent]
  driveFiles,   \* Drive: the uploaded files, [id, name, parent]
  localFiles,   \* uploads/: the names of the files multer wrote and not yet unlinked
  assets,       \* the assets table
  now,          \* the wall clock, in ticks
  budget,       \* failures the environment may still inject
  pc,           \* per request: where its handler stands
  req,          \* per request: [files, body]
  k,            \* per request: index of the file the for loop is at
  loc,          \* per request: the loop body's local variables
  uploaded,     \* per request: uploadedAssets
  res,          \* per request: the HTTP response, [status, assets]
  log           \* history: what each request did, [p, k, op, seg, val, path]

vars == <<drive, folders, driveFiles, localFiles, assets, now, budget, pc,
          req, k, loc, uploaded, res, log>>

\* ------------------------------------------------------------------ inputs

Image == [type |-> "image", subtype |-> "png"]
Video == [type |-> "video", subtype |-> "mp4"]

\* All strings over alphabet of length at most n.
RECURSIVE Strings(_, _)
Strings(alphabet, n) ==
  IF n = 0 THEN {<<>>}
  ELSE LET shorter == Strings(alphabet, n - 1)
       IN  shorter \cup {Append(s, c) : s \in shorter, c \in alphabet}

\* The file multer stored for request p at position i: multer names it
\* uniquely (file.filename) under uploads/.
UploadedFile(p, i, desc) ==
  [originalname |-> desc.originalname,
   mimetype     |-> desc.mimetype,
   size         |-> Len(desc.originalname) + 1,
   filename     |-> <<p, i>>]

BaseBody ==
  [category  |-> <<"T">>,
   assetType |-> <<"V">>,
   region    |-> <<"r">>,
   state     |-> <<"s">>,
   resort    |-> <<"R">>,
   tags      |-> undefined]

\* A body whose form carries year, month and version fields of its own, which
\* the handler's destructuring of req.body does not read.
DatedBody ==
  [year |-> <<"1", "9", "9", "9">>, month |-> <<"7">>, version |-> <<"3">>]
    @@ BaseBody

\* Request bodies of Spec: the base body and one-field departures from it (a
\* required field absent, no resort, an empty state, a tag list, fields the
\* handler does not read).
SpecBodies ==
  {BaseBody, DatedBody}
    \cup {[BaseBody EXCEPT ![f] = undefined] :
            f \in {"category", "assetType", "region", "state", "resort"}}
    \cup {[BaseBody EXCEPT !.state = <<>>],
          [BaseBody EXCEPT !.tags = <<"t", ",", " ", "u">>]}

\* Files of Spec and SpecRace: images with an extension at the odd
\* positions of a request, videos without one at the even positions.
SpecFiles(n) ==
  [i \in 1..n |->
     IF i % 2 = 1
       THEN [originalname |-> <<"a", ".", "a">>, mimetype |-> Image]
       ELSE [originalname |-> <<"a">>, mimetype |-> Video]]

\* Request bodies of SpecDerive: every combination.
DeriveBodies ==
  [category  : {<<"T">>, <<"a", "/", "b">>},
   assetType : {<<"V">>, undefined},
   region    : {<<"r">>, <<"a", "/", "b">>, undefined},
   state     : {<<"s">>, <<>>},
   resort    : {<<"R">>, <<>>, undefined, <<"/">>},
   tags      : {undefined}]

DeriveFiles ==
  {[originalname |-> n, mimetype |-> IF Len(n) % 2 = 0 THEN Image ELSE Video] :
     n \in Strings({"a", "."}, MaxNameLen)}

NoLoc ==
  [year |-> 0, month |-> 0, version |-> 0, fullFilename |-> <<>>,
   driveFileId |-> Local, driveFolderId |-> Local,
   driveLink |-> <<>>, versionsLink |-> <<>>, thumbnailUrl |-> null,
   folderPath |-> <<>>, segs |-> <<>>, si |-> 0, parentId |-> Root,
   data |-> <<>>]

NoRes == [status |-> 0, assets |-> <<>>]
NoReq == [files |-> <<>>, body |-> BaseBody]

\* The state at start-up with the requests in `active` received, all with
\* the same body: multer has written their files to uploads/, both stores
\* are empty.
InitWith(active, bodies, uploads, fails) ==
  /\ drive \in BOOLEAN
  /\ folders = {}
  /\ driveFiles = {}
  /\ assets = {}
  /\ now = 0
  /\ budget = fails
  /\ \E body \in bodies, fs \in [active -> uploads] :
       /\ req = [p \in Reqs |->
                   IF p \in active
                     THEN [files |-> [i \in 1..Len(fs[p]) |->
                                        UploadedFile(p, i, fs[p][i])],
                           body  |-> body]
                     ELSE NoReq]
       /\ localFiles = UNION {{<<p, i>> : i \in 1..Len(fs[p])} : p \in active}
  /\ pc = [p \in Reqs |-> IF p \in active THEN "recv" ELSE "off"]
  /\ k = [p \in Reqs |-> 0]
  /\ loc = [p \in Reqs |-> NoLoc]
  /\ uploaded = [p \in Reqs |-> <<>>]
  /\ res = [p \in Reqs |-> NoRes]
  /\ log = {}

\* ---------------------------------------------------------------- actions

\* A history entry: request p, working on its k[p]-th file with folder path
\* `path`, did `op` (for segment `seg` of the walk) with or on id `val`.
EntryAt(p, op, seg, val, path) ==
  [p |-> p, k |-> k[p], op |-> op, seg |-> seg, val |-> val, path |-> path]

Entry(p, op, seg, val) == EntryAt(p, op, seg, val, loc[p].folderPath)

\* The handler's outer catch: res.status(500).json({message}).
Respond500(p) ==
  /\ res' = [res EXCEPT ![p] = [status |-> 500, assets |-> <<>>]]
  /\ pc' = [pc EXCEPT ![p] = "done"]

\* POST /api/assets/upload, up to the for loop.
Receive(p) ==
  /\ pc[p] = "recv"
  /\ IF Len(req[p].files) = 0
       THEN /\ res' = [res EXCEPT ![p] = [status |-> 400, assets |-> <<>>]]
            /\ pc' = [pc EXCEPT ![p] = "done"]
            /\ UNCHANGED k
       ELSE /\ k' = [k EXCEPT ![p] = 1]
            /\ pc' = [pc EXCEPT ![p] = "loop"]
            /\ UNCHANGED res
  /\ UNCHANGED <<drive, folders, driveFiles, localFiles, assets,
                 now, budget, req, loc, uploaded, log>>

\* One iteration of the for loop, from its head to the first call it awaits:
\* the names are derived and, with Drive configured, createDriveFolder is
\* entered (split, parentId = 'root').
BeginFile(p) ==
  /\ pc[p] = "loop"
  /\ LET file  == req[p].files[k[p]]
         body  == req[p].body
         year  == Year(now)
         month == Month(now)
         path  == FolderPath(body, year, month)
         segs  == Split(path, "/")
         first == NextSegment(segs, 1)
         l0    == [NoLoc EXCEPT
                     !.year = year, !.month = month, !.version = Version,
                     !.fullFilename = FullFilename(body, file, year, month, Version),
                     !.driveFileId = Local, !.driveFolderId = Local,
                     !.driveLink = LocalLink(file),
                     !.versionsLink = <<"/uploads/">>,
                     !.thumbnailUrl = null]
     IN  IF drive
           THEN /\ loc' = [loc EXCEPT ![p] =
                             [l0 EXCEPT !.folderPath = path, !.segs = segs,
                                        !.si = first, !.parentId = Root]]
                /\ pc' = [pc EXCEPT ![p] =
                            IF first > Len(segs) THEN "upload" ELSE "list"]
                /\ log' = log \cup
                            (IF first > Len(segs)
                               THEN {EntryAt(p, "walked", 0, Root, path)} ELSE {})
           ELSE /\ loc' = [loc EXCEPT ![p] =
                             [l0 EXCEPT !.thumbnailUrl =
                                IF IsImage(file) THEN LocalLink(file) ELSE null]]
                /\ pc' = [pc EXCEPT ![p] = "record"]
                /\ log' = log \cup {EntryAt(p, "fallback", 0, Local, <<>>)}
  /\ UNCHANGED <<drive, folders, driveFiles, localFiles, assets,
                 now, budget, req, k, uploaded, res>>

\* createDriveFolder: parentId is set to `id` and the loop moves to the next
\* non-empty segment, or returns parentId when there is none.
Descend(p, id, done) ==
  LET l    == loc[p]
      next == NextSegment(l.segs, l.si + 1)
  IN  /\ loc' = [loc EXCEPT ![p] = [l EXCEPT !.parentId = id, !.si = next]]
      /\ pc' = [pc EXCEPT ![p] = IF next > Len(l.segs) THEN "upload" ELSE "list"]
      /\ log' = log \cup done \cup
                  (IF next > Len(l.segs) THEN {Entry(p, "walked", 0, id)} ELSE {})

\* createDriveFolder: drive.files.list answers. A folder found is descended
\* into (files[0]: any of them when several match); none found leads to
\* files.create.
DriveListOk(p) ==
  /\ pc[p] = "list"
  /\ LET l     == loc[p]
         found == ChildFolders(folders, l.parentId, l.segs[l.si])
         call  == {Entry(p, "list", l.si, l.parentId)}
     IN  IF found # {}
           THEN \E f \in found : Descend(p, f.id, call)
           ELSE /\ pc' = [pc EXCEPT ![p] = "mkdir"]
                /\ log' = log \cup call
                /\ UNCHANGED loc
  /\ UNCHANGED <<drive, folders, driveFiles, localFiles, assets,
                 now, budget, req, k, uploaded, res>>

\* Variant: an atomic create-if-absent (sensitivity of C4).
DriveCreateFolderIfAbsent(p) ==
  /\ pc[p] = "mkdir"
  /\ LET l     == loc[p]
         found == ChildFolders(folders, l.parentId, l.segs[l.si])
         id    == FolderId(p, k[p], l.si)
     IN  IF found # {}
           THEN /\ \E f \in found : Descend(p, f.id, {})
                /\ UNCHANGED folders
           ELSE /\ folders' = folders \cup
                       {[id |-> id, name |-> l.segs[l.si], parent |-> l.parentId]}
                /\ Descend(p, id, {Entry(p, "mkdir", l.si, id)})
  /\ UNCHANGED <<drive, driveFiles, localFiles, assets, now,
                 budget, req, k, uploaded, res>>

\* createDriveFolder: drive.files.create of a folder answers.
DriveCreateFolderOk(p) ==
  /\ pc[p] = "mkdir"
  /\ LET l  == loc[p]
         id == FolderId(p, k[p], l.si)
     IN  /\ folders' = folders \cup
                         {[id |-> id, name |-> l.segs[l.si], parent |-> l.parentId]}
         /\ Descend(p, id, {Entry(p, "mkdir", l.si, id)})
  /\ UNCHANGED <<drive, driveFiles, localFiles, assets, now,
                 budget, req, k, uploaded, res>>

\* Variant: the catch of the upload loop rethrows, so that a Drive error
\* ends the request (sensitivity of C9).
RethrowDriveError(p, op) ==
  /\ budget > 0
  /\ budget' = budget - 1
  /\ log' = log \cup {Entry(p, op, loc[p].si, loc[p].parentId),
                      Entry(p, "fallback", 0, Local)}
  /\ Respond500(p)
  /\ UNCHANGED <<drive, folders, driveFiles, localFiles, assets,
                 now, req, k, loc, uploaded>>

\* Variant: the local file is cleaned up when the Drive work fails too, as
\* in a finally block (sensitivity of C29).
CatchDriveErrorUnlinks(p, op) ==
  /\ budget > 0
  /\ budget' = budget - 1
  /\ localFiles' = localFiles \ {req[p].files[k[p]].filename}
  /\ log' = log \cup {Entry(p, op, loc[p].si, loc[p].parentId),
                      Entry(p, "fallback", 0, Local)}
  /\ pc' = [pc EXCEPT ![p] = "record"]
  /\ UNCHANGED <<drive, folders, driveFiles, assets,
                 now, req, k, loc, uploaded, res>>

\* A Drive call of the try block rejects: the error leaves createDriveFolder
\* (if it is in it) and reaches the catch of the upload loop, which logs it
\* and goes on with the local defaults.
CatchDriveError(p, op) ==
  /\ budget > 0
  /\ budget' = budget - 1
  /\ log' = log \cup {Entry(p, op, loc[p].si, loc[p].parentId),
                      Entry(p, "fallback", 0, Local)}
  /\ pc' = [pc EXCEPT ![p] = "record"]
  /\ UNCHANGED <<drive, folders, driveFiles, localFiles, assets,
                 now, req, k, loc, uploaded, res>>

DriveListFail(p) == pc[p] = "list" /\ CatchDriveError(p, "listFail")

\* Variant: createDriveFolder swallows a failed create and walks on
\* (sensitivity of C5).
DriveCreateFolderFailIgnored(p) ==
  /\ pc[p] = "mkdir"
  /\ budget > 0
  /\ budget' = budget - 1
  /\ Descend(p, loc[p].parentId,
             {Entry(p, "mkdirFail", loc[p].si, loc[p].parentId),
              Entry(p, "fallback", 0, Local)})
  /\ UNCHANGED <<drive, folders, driveFiles, localFiles, assets,
                 now, req, k, uploaded, res>>

DriveCreateFolderFail(p) == pc[p] = "mkdir" /\ CatchDriveError(p, "mkdirFail")

\* Variant: a failed file creation ends the request (sensitivity of C11).
DriveCreateFileFailFatal(p) == pc[p] = "upload" /\ RethrowDriveError(p, "uploadFail")

DriveCreateFileFail(p) == pc[p] = "upload" /\ CatchDriveError(p, "uploadFail")

\* drive.files.create of the file answers: the storage reference becomes the
\* remote one, then fs.unlinkSync removes the local file or throws into the
\* same catch.
CreateFile(p, unlinked) ==
  /\ pc[p] = "upload"
  /\ LET l    == loc[p]
         file == req[p].files[k[p]]
         id   == FileId(p, k[p])
         link == <<"webViewLink", id>>
     IN  /\ driveFiles' = driveFiles \cup
                            {[id |-> id, name |-> l.fullFilename, parent |-> l.parentId]}
         /\ loc' = [loc EXCEPT ![p] =
                      [l EXCEPT !.driveFileId = id,
                                !.driveFolderId = l.parentId,
                                !.driveLink = link,
                                !.versionsLink =
                                   <<"https://drive.google.com/drive/folders/", l.parentId>>,
                                !.thumbnailUrl = IF IsImage(file) THEN link ELSE null]]
         /\ IF unlinked
              THEN /\ localFiles' = localFiles \ {file.filename}
                   /\ log' = log \cup {Entry(p, "upload", 0, id),
                                       Entry(p, "unlink", 0, id)}
                   /\ UNCHANGED budget
              ELSE /\ budget > 0
                   /\ budget' = budget - 1
                   /\ log' = log \cup {Entry(p, "upload", 0, id),
                                       Entry(p, "unlinkFail", 0, id)}
                   /\ UNCHANGED localFiles
  /\ pc' = [pc EXCEPT ![p] = "record"]
  /\ UNCHANGED <<drive, folders, assets, now, req, k, uploaded, res>>

DriveCreateFileOk(p) == CreateFile(p, TRUE)

\* Variant: the storage reference is assigned after unlinkSync, so that a
\* failed unlink leaves it local (sensitivity of C10).
DriveCreateFileUnlinkFailKeepsLocal(p) ==
  /\ pc[p] = "upload"
  /\ budget > 0
  /\ budget' = budget - 1
  /\ driveFiles' = driveFiles \cup
       {[id |-> FileId(p, k[p]), name |-> loc[p].fullFilename,
         parent |-> loc[p].parentId]}
  /\ log' = log \cup {Entry(p, "upload", 0, FileId(p, k[p])),
                      Entry(p, "unlinkFail", 0, FileId(p, k[p]))}
  /\ pc' = [pc EXCEPT ![p] = "record"]
  /\ UNCHANGED <<drive, folders, localFiles, assets, now, req, k, loc,
                 uploaded, res>>

DriveCreateFileUnlinkFail(p) == CreateFile(p, FALSE)

\* The assetData literal and insertAssetSchema.parse; a ZodError reaches the
\* handler's outer catch.
BuildRecord(p) ==
  /\ pc[p] = "record"
  /\ LET data == AssetData(req[p].body, req[p].files[k[p]], loc[p])
     IN  IF ValidInsert(data)
           THEN /\ loc' = [loc EXCEPT ![p].data = data]
                /\ pc' = [pc EXCEPT ![p] = "insert"]
                /\ UNCHANGED <<res, log>>
           ELSE /\ Respond500(p)
                /\ log' = log \cup {Entry(p, "invalid", 0, Local)}
                /\ UNCHANGED loc
  /\ UNCHANGED <<drive, folders, driveFiles, localFiles, assets,
                 now, budget, req, k, uploaded>>

\* The row the database stores for an insert: the values given plus the
\* column defaults (id, is_favorite, upload_date, updated_at).
InsertedRow(data, id, t) ==
  [id |-> id, isFavorite |-> false, uploadDate |-> t, updatedAt |-> t] @@ data

\* storage.createAsset answers; the row is pushed on uploadedAssets and the
\* loop goes to the next file, or ends.
InsertAssetOk(p) ==
  /\ pc[p] = "insert"
  /\ LET row == InsertedRow(loc[p].data, AssetId(p, k[p]), now)
     IN  /\ assets' = assets \cup {row}
         /\ uploaded' = [uploaded EXCEPT ![p] = Append(@, row)]
         /\ log' = log \cup {Entry(p, "insert", 0, row.id)}
  /\ IF k[p] = Len(req[p].files)
       THEN pc' = [pc EXCEPT ![p] = "respond"] /\ UNCHANGED k
       ELSE pc' = [pc EXCEPT ![p] = "loop"] /\ k' = [k EXCEPT ![p] = @ + 1]
  /\ UNCHANGED <<drive, folders, driveFiles, localFiles, now,
                 budget, req, loc, res>>

\* Variant: a failed insert deletes the Drive file just created
\* (sensitivity of C12).
InsertAssetFailRollsBack(p) ==
  /\ pc[p] = "insert"
  /\ budget > 0
  /\ budget' = budget - 1
  /\ driveFiles' = {f \in driveFiles : f.id # loc[p].driveFileId}
  /\ log' = log \cup {Entry(p, "insertFail", 0, Local)}
  /\ Respond500(p)
  /\ UNCHANGED <<drive, folders, localFiles, assets, now, req, k, loc, uploaded>>

\* Variant: a failed insert removes the records the request has persisted so
\* far (sensitivity of C23).
InsertAssetFailUndoesBatch(p) ==
  /\ pc[p] = "insert"
  /\ budget > 0
  /\ budget' = budget - 1
  /\ assets' = {row \in assets : \A i \in 1..Len(uploaded[p]) : row.id # uploaded[p][i].id}
  /\ log' = log \cup {Entry(p, "insertFail", 0, Local)}
  /\ Respond500(p)
  /\ UNCHANGED <<drive, folders, driveFiles, localFiles, now, req, k, loc, uploaded>>

\* storage.createAsset rejects: the error reaches the handler's outer catch.
InsertAssetFail(p) ==
  /\ pc[p] = "insert"
  /\ budget > 0
  /\ budget' = budget - 1
  /\ log' = log \cup {Entry(p, "insertFail", 0, Local)}
  /\ Respond500(p)
  /\ UNCHANGED <<drive, folders, driveFiles, localFiles, assets,
                 now, req, k, loc, uploaded>>

\* res.json({message, assets: uploadedAssets}) after the loop.
Respond(p) ==
  /\ pc[p] = "respond"
  /\ res' = [res EXCEPT ![p] = [status |-> 200, assets |-> uploaded[p]]]
  /\ pc' = [pc EXCEPT ![p] = "done"]
  /\ UNCHANGED <<drive, folders, driveFiles, localFiles, assets,
                 now, budget, req, k, loc, uploaded, log>>

\* Time passes. A tick is a calendar month and the clock is read at the head
\* of the loop body, so only the ticks before a loop head are kept; the
\* database's defaultNow() of the same file reads the same month.
Tick ==
  /\ now < MaxTime
  /\ \E p \in Reqs : pc[p] = "loop"
  /\ now' = now + 1
  /\ UNCHANGED <<drive, folders, driveFiles, localFiles, assets,
                 budget, pc, req, k, loc, uploaded, res, log>>

\* --------------------------------------------------------- specifications

\* One upload request of up to MaxFiles files, with storage failures.
Init == InitWith({1}, SpecBodies, {SpecFiles(n) : n \in 0..MaxFiles}, MaxFailures)

Next ==
  \/ \E p \in Reqs :
       \/ Receive(p)
       \/ BeginFile(p)
       \/ DriveListOk(p)
       \/ DriveListFail(p)
       \/ DriveCreateFolderOk(p)
       \/ DriveCreateFolderFail(p)
       \/ DriveCreateFileOk(p)
       \/ DriveCreateFileUnlinkFail(p)
       \/ DriveCreateFileFail(p)
       \/ BuildRecord(p)
       \/ InsertAssetOk(p)
       \/ InsertAssetFail(p)
       \/ Respond(p)
  \/ Tick

Spec == Init /\ [][Next]_vars

\* One upload of a single file over every combination of attribute values
\* and original names, with no failure injected.
InitDerive == InitWith({1}, DeriveBodies, {<<d>> : d \in DeriveFiles}, 0)

NextDerive ==
  \/ \E p \in Reqs :
       \/ Receive(p)
       \/ BeginFile(p)
       \/ DriveListOk(p)
       \/ DriveCreateFolderOk(p)
       \/ DriveCreateFileOk(p)
       \/ BuildRecord(p)
       \/ InsertAssetOk(p)
       \/ Respond(p)
  \/ Tick

SpecDerive == InitDerive /\ [][NextDerive]_vars

\* Two upload requests of one file each, with the same attributes, running
\* concurrently against a configured Drive; no failure injected.
InitRace == InitWith(Reqs, {BaseBody}, {SpecFiles(1)}, 0) /\ drive

NextRace ==
  \E p \in Reqs :
    \/ Receive(p)
    \/ BeginFile(p)
    \/ DriveListOk(p)
    \/ DriveCreateFolderOk(p)
    \/ DriveCreateFileOk(p)
    \/ BuildRecord(p)
    \/ InsertAssetOk(p)
    \/ Respond(p)

SpecRace == InitRace /\ [][NextRace]_vars

\* One upload request of MaxFiles + 1 files with valid attributes, with
\* storage failures: a batch that can stop with files before and after the
\* one it stops at.
InitBatch == InitWith({1}, {BaseBody}, {SpecFiles(MaxFiles + 1)}, MaxFailures)

SpecBatch == InitBatch /\ [][Next]_vars

\* --------------------------------------------------------- catalog queries

\* A JavaScript number, NaN, a Date at clock tick t, and an invalid Date.
Num(n) == <<"number", n>>
NaN == <<"NaN">>
DateAt(t) == <<"date", t>>
InvalidDate == <<"Invalid Date">>

IsDigit(c) == c \in {"0", "1", "2", "3", "4", "5", "6", "7", "8", "9"}
DigitValue(c) == CHOOSE d \in 0..9 : Digit(d) = c

\* The number written by the longest prefix of digits of s from index i on.
RECURSIVE ParseDigits(_, _, _)
ParseDigits(s, i, acc) ==
  IF i > Len(s) \/ ~IsDigit(s[i]) THEN acc
  ELSE ParseDigits(s, i + 1, 10 * acc + DigitValue(s[i]))

\* String.prototype.trimStart() (blanks only).
RECURSIVE TrimStart(_)
TrimStart(s) == IF s # <<>> /\ Head(s) = " " THEN TrimStart(Tail(s)) ELSE s

\* parseInt(x) for a string, undefined or a number: leading blanks, an
\* optional sign, then digits up to the first other character; NaN when no
\* digit comes first.
ParseInt(x) ==
  LET str    == IF x = undefined THEN Interpolate(x)
                ELSE IF Len(x) = 2 /\ x[1] = "number" THEN NumToString(x[2])
                ELSE x
      t      == TrimStart(str)
      signed == t # <<>> /\ t[1] \in {"-", "+"}
      digits == IF signed THEN Tail(t) ELSE t
  IN  IF digits = <<>> \/ ~IsDigit(digits[1]) THEN NaN
      ELSE IF signed /\ t[1] = "-" THEN Num(0 - ParseDigits(digits, 1, 0))
      ELSE Num(ParseDigits(digits, 1, 0))

\* Truthiness of a number-or-undefined value: 0 and NaN are falsy.
TruthyNumber(x) == x # undefined /\ x # NaN /\ x # Num(0)

\* new Date(s). A timestamp travels in a query string as the decimal number
\* of its clock tick; any other text gives an invalid Date.
NewDate(s) ==
  IF s # <<>> /\ \A i \in 1..Len(s) : IsDigit(s[i])
    THEN DateAt(ParseDigits(s, 1, 0))
    ELSE InvalidDate

\* const limit = 20 of the Dashboard, and the route's default `limit = 20`.
PageSize == 20
DefaultLimit == 20

\* The names of the URL parameters the route reads, and `sort`, which the
\* Dashboard also sends.
NoQuery ==
  [category |-> undefined, assetType |-> undefined, region |-> undefined,
   state |-> undefined, resort |-> undefined, startDate |-> undefined,
   endDate |-> undefined, search |-> undefined, limit |-> undefined,
   offset |-> undefined, sort |-> undefined]

\* Dashboard queryFn: the URL parameters built from the filter state, the
\* search box, the page and the sort choice. Filters that are empty or "all"
\* are deleted, and so is an empty search.
DashboardParams(ui) ==
  LET Kept(v) == IF ~Truthy(v) \/ v = <<"a", "l", "l">> THEN undefined ELSE v
  IN  [NoQuery EXCEPT
         !.category  = Kept(ui.filters.category),
         !.assetType = Kept(ui.filters.assetType),
         !.region    = Kept(ui.filters.region),
         !.startDate = Kept(ui.filters.startDate),
         !.endDate   = Kept(ui.filters.endDate),
         !.search    = IF ~Truthy(ui.searchQuery) THEN undefined ELSE ui.searchQuery,
         !.limit     = NumToString(PageSize),
         !.offset    = NumToString(ui.currentPage * PageSize),
         !.sort      = ui.sortBy]

\* GET /api/assets: the filters object built from req.query.
RouteFilters(query) ==
  [category  |-> query.category,
   assetType |-> query.assetType,
   region    |-> query.region,
   state     |-> query.state,
   resort    |-> query.resort,
   startDate |-> IF Truthy(query.startDate) THEN NewDate(query.startDate) ELSE undefined,
   endDate   |-> IF Truthy(query.endDate) THEN NewDate(query.endDate) ELSE undefined,
   search    |-> query.search,
   limit     |-> ParseInt(IF query.limit = undefined THEN Num(DefaultLimit) ELSE query.limit),
   offset    |-> ParseInt(IF query.offset = undefined THEN Num(0) ELSE query.offset)]

\* getAssets({}): every filter undefined.
NoFilters ==
  [category |-> undefined, assetType |-> undefined, region |-> undefined,
   state |-> undefined, resort |-> undefined, startDate |-> undefined,
   endDate |-> undefined, search |-> undefined, limit |-> undefined,
   offset |-> undefined]

\* SQL: text LIKE pattern, with % for any run of characters and _ for any
\* one character (patterns here hold no backslash, the escape character).
RECURSIVE Like(_, _)
Like(text, pattern) ==
  IF pattern = <<>> THEN text = <<>>
  ELSE IF Head(pattern) = "%"
    THEN \/ Like(text, Tail(pattern))
         \/ text # <<>> /\ Like(Tail(text), pattern)
  ELSE /\ text # <<>>
       /\ Head(pattern) = "_" \/ Head(pattern) = Head(text)
       /\ Like(Tail(text), Tail(pattern))

\* Variant: gt in place of gte (sensitivity of C16).
Gt(column, value) == column > value

\* gte(column, value) and lte(column, value) on timestamps.
Gte(column, value) == column >= value
Lte(column, value) == column <= value

\* getAssets: `conditions`, the where(and(...conditions)) of the query. A
\* condition is pushed for each filter that is truthy (a Date always is);
\* eq on a NULL column matches no value.
Conditions(row, filters) ==
  /\ Truthy(filters.category) => row.category = filters.category
  /\ Truthy(filters.assetType) => row.assetType = filters.assetType
  /\ Truthy(filters.region) => row.region = filters.region
  /\ Truthy(filters.state) => row.state = filters.state
  /\ Truthy(filters.resort) => row.resort = filters.resort
  /\ filters.startDate # undefined => Gte(row.uploadDate, filters.startDate[2])
  /\ filters.endDate # undefined => Lte(row.uploadDate, filters.endDate[2])
  /\ Truthy(filters.search) =>
       Like(row.filename, <<"%">> \o filters.search \o <<"%">>)

\* orderBy(desc(assets.uploadDate)): the orders the database may return the
\* rows in; rows of equal upload_date come in any order.
OrderByUploadDateDesc(rows) ==
  {o \in [1..Cardinality(rows) -> rows] :
     /\ \A i \in DOMAIN o : \A j \in DOMAIN o : i < j =>
          /\ o[i] # o[j]
          /\ o[i].uploadDate >= o[j].uploadDate}

\* LIMIT l OFFSET o on an ordered result; limit and offset are applied only
\* when truthy.
LimitOffset(ordered, limit, offset) ==
  LET skip == IF TruthyNumber(offset) THEN offset[2] ELSE 0
      last == IF TruthyNumber(limit) /\ skip + limit[2] < Len(ordered)
                THEN skip + limit[2] ELSE Len(ordered)
  IN  SubSeq(ordered, skip + 1, last)

\* The query is rejected: toISOString() of an invalid Date throws, and the
\* database refuses a negative LIMIT or OFFSET.
GetAssetsFails(filters) ==
  \/ filters.startDate = InvalidDate
  \/ filters.endDate = InvalidDate
  \/ TruthyNumber(filters.limit) /\ filters.limit[2] < 0
  \/ TruthyNumber(filters.offset) /\ filters.offset[2] < 0

\* DatabaseStorage.getAssets: the results the query may give on `table`.
GetAssets(table, filters) ==
  {LimitOffset(o, filters.limit, filters.offset) :
     o \in OrderByUploadDateDesc({row \in table : Conditions(row, filters)})}

\* hasMore: (parseInt(offset) + parseInt(limit)) < totalCount; a sum with
\* NaN is NaN, and NaN < n is false.
HasMore(offset, limit, totalCount) ==
  IF offset = NaN \/ limit = NaN THEN FALSE
  ELSE offset[2] + limit[2] < totalCount

\* The row ingestion stores for the i-th file of request p, uploaded with
\* `body` at tick t while Drive is not configured.
IngestedRow(p, i, body, t) ==
  LET file == UploadedFile(p, i, SpecFiles(i)[i])
      l    == [NoLoc EXCEPT
                 !.year = Year(t), !.month = Month(t), !.version = Version,
                 !.fullFilename = FullFilename(body, file, Year(t), Month(t), Version),
                 !.driveLink = LocalLink(file),
                 !.versionsLink = <<"/uploads/">>,
                 !.thumbnailUrl = IF IsImage(file) THEN LocalLink(file) ELSE null]
  IN  InsertedRow(AssetData(body, file, l), AssetId(p, i), t)

\* Attribute sets of the rows a queried table holds.
RowBodies ==
  {BaseBody,
   [BaseBody EXCEPT !.category = <<"a", "l", "l">>, !.assetType = <<"W">>],
   [BaseBody EXCEPT !.region = <<"q">>, !.state = <<"z">>, !.resort = undefined]}

\* The tables of at most MaxRows rows, the i-th ingested as file i of
\* request 1 at some tick.
Tables ==
  UNION {{ {IngestedRow(1, i, b[i], t[i]) : i \in 1..n} :
             b \in [1..n -> RowBodies], t \in [1..n -> 0..MaxTime] } :
         n \in 0..MaxRows}

\* Query strings sent to GET /api/assets directly.
ApiQueries ==
  \* one exact-match filter: a value some row has, one no row has, the empty
  \* string, "all"
  UNION {{[NoQuery EXCEPT ![f] = v] :
            v \in {BaseBody[f], <<"x">>, <<>>, <<"a", "l", "l">>}} :
         f \in {"category", "assetType", "region", "state", "resort"}}
  \* several filters at once
  \cup {[NoQuery EXCEPT !.category = c, !.region = r, !.startDate = d, !.search = w] :
          c \in {undefined, <<"T">>}, r \in {undefined, <<"r">>},
          d \in {undefined, <<"1">>}, w \in {undefined, <<"a">>}}
  \* date bounds, valid and not
  \cup {[NoQuery EXCEPT !.startDate = d1, !.endDate = d2] :
          d1 \in {undefined, <<>>} \cup {NumToString(t) : t \in 0..MaxTime},
          d2 \in {undefined, <<"x">>} \cup {NumToString(t) : t \in 0..MaxTime}}
  \* searches
  \cup {[NoQuery EXCEPT !.search = w] :
          w \in {<<>>, <<"V", "1">>, <<"v", "1">>, <<"1", "_">>, <<".", "a">>}}
  \* pages
  \cup {[NoQuery EXCEPT !.limit = l, !.offset = o] :
          l \in {undefined, <<"0">>, <<"1">>, <<"2">>, <<"x">>, <<"-", "1">>},
          o \in {undefined, <<"0">>, <<"1">>, <<"2">>}}
  \* pages of a filtered result
  \cup {[NoQuery EXCEPT !.category = c, !.limit = <<"1">>, !.offset = o] :
          c \in {<<"T">>, <<"x">>}, o \in {undefined, <<"1">>}}
  \* sort keys
  \cup {[NoQuery EXCEPT !.sort = k1] :
          k1 \in {<<"d", "a", "t", "e">>, <<"n", "a", "m", "e">>,
                  <<"s", "i", "z", "e">>, <<"t", "y", "p", "e">>}}

\* States of the Dashboard: its filters, search box, page and sort choice.
DashboardStates ==
  [filters     : [category  : {<<"a", "l", "l">>, <<"T">>},
                  assetType : {<<"a", "l", "l">>},
                  region    : {<<"a", "l", "l">>, <<"r">>},
                  startDate : {<<>>, <<"1">>},
                  endDate   : {<<>>}],
   searchQuery : {<<>>, <<"a">>},
   currentPage : {0, 1},
   sortBy      : {<<"d", "a", "t", "e">>, <<"n", "a", "m", "e">>,
                  <<"s", "i", "z", "e">>, <<"t", "y", "p", "e">>}]

\* The catalog as a client finds it: the table holds ingested rows and slot
\* 1 is about to send one request.
InitQuery ==
  /\ drive = FALSE
  /\ folders = {}
  /\ driveFiles = {}
  /\ assets \in Tables
  /\ localFiles = {<<1, i>> : i \in 1..Cardinality(assets)}
  /\ now = MaxTime
  /\ budget = 0
  /\ pc = [p \in Reqs |-> IF p = 1 THEN "idle" ELSE "off"]
  /\ req = [p \in Reqs |-> NoReq]
  /\ k = [p \in Reqs |-> 0]
  /\ loc = [p \in Reqs |-> NoLoc]
  /\ uploaded = [p \in Reqs |-> <<>>]
  /\ res = [p \in Reqs |-> NoRes]
  /\ log = {}

\* GET /api/assets with query string `query`, sent by `via`.
ListAssets(p, via, query) ==
  /\ pc[p] = "idle"
  /\ LET filters == RouteFilters(query)
         request == [op |-> "list", via |-> via, query |-> query, filters |-> filters]
     IN  /\ req' = [req EXCEPT ![p] = request]
         /\ IF GetAssetsFails(filters)
              THEN res' = [res EXCEPT ![p] = [status |-> 500, assets |-> <<>>]]
              ELSE \E result \in GetAssets(assets, filters) :
                     res' = [res EXCEPT ![p] =
                               [status     |-> 200,
                                assets     |-> result,
                                totalCount |-> Cardinality(assets),
                                hasMore    |-> HasMore(filters.offset, filters.limit,
                                                       Cardinality(assets))]]
  /\ pc' = [pc EXCEPT ![p] = "done"]
  /\ UNCHANGED <<drive, folders, driveFiles, localFiles, assets, now, budget,
                 k, loc, uploaded, log>>

\* The Dashboard's queryFn fetches /api/assets.
DashboardList(p) ==
  /\ pc[p] = "idle"
  /\ \E ui \in DashboardStates : ListAssets(p, "dashboard", DashboardParams(ui))

\* Another client fetches /api/assets.
ApiList(p) ==
  /\ pc[p] = "idle"
  /\ \E query \in ApiQueries : ListAssets(p, "api", query)

\* GET /api/assets/export/excel: storage.getAssets({}), one sheet row per
\* asset.
ExportAssets(p) ==
  /\ pc[p] = "idle"
  /\ req' = [req EXCEPT ![p] =
               [op |-> "export", via |-> "api", query |-> NoQuery, filters |-> NoFilters]]
  /\ \E result \in GetAssets(assets, NoFilters) :
       res' = [res EXCEPT ![p] = [status |-> 200, assets |-> result]]
  /\ pc' = [pc EXCEPT ![p] = "done"]
  /\ UNCHANGED <<drive, folders, driveFiles, localFiles, assets, now, budget,
                 k, loc, uploaded, log>>

NextQuery ==
  \E p \in Reqs :
    \/ DashboardList(p)
    \/ ApiList(p)
    \/ ExportAssets(p)

SpecQuery == InitQuery /\ [][NextQuery]_vars

\* Tables of at most MaxRows + 1 rows with the same attributes, ingested at
\* any ticks: rows 1 and 3 have the same name, size and type, row 2 another.
SortTables ==
  UNION {{ {IngestedRow(1, i, BaseBody, t[i]) : i \in 1..n} :
             t \in [1..n -> 0..MaxTime] } :
         n \in 0..(MaxRows + 1)}

\* The Dashboard with no filter set, at some page and sort choice.
SortStates ==
  {ui \in DashboardStates :
     /\ ui.filters.category = <<"a", "l", "l">>
     /\ ui.filters.region = <<"a", "l", "l">>
     /\ ui.filters.startDate = <<>>
     /\ ui.searchQuery = <<>>}

InitSort ==
  /\ drive = FALSE
  /\ folders = {}
  /\ driveFiles = {}
  /\ assets \in SortTables
  /\ localFiles = {<<1, i>> : i \in 1..Cardinality(assets)}
  /\ now = MaxTime
  /\ budget = 0
  /\ pc = [p \in Reqs |-> IF p = 1 THEN "idle" ELSE "off"]
  /\ req = [p \in Reqs |-> NoReq]
  /\ k = [p \in Reqs |-> 0]
  /\ loc = [p \in Reqs |-> NoLoc]
  /\ uploaded = [p \in Reqs |-> <<>>]
  /\ res = [p \in Reqs |-> NoRes]
  /\ log = {}

\* The Dashboard fetches /api/assets after a change of the sort choice or of
\* the page.
SortList(p) ==
  /\ pc[p] = "idle"
  /\ \E ui \in SortStates : ListAssets(p, "dashboard", DashboardParams(ui))

NextSort == \E p \in Reqs : SortList(p)

SpecSort == InitSort /\ [][NextSort]_vars

\* ------------------------------------------------- operations on one asset

\* !x for a boolean-or-null value.
Not(x) == IF x = true THEN false ELSE true

\* DatabaseStorage.getAsset: the rows with primary key id (none or one).
GetAsset(table, id) == {row \in table : row.id = id}

\* The ids a client asks for: the one ingestion gives to the first file of
\* request 1, and one that no row ever has.
Ids == {AssetId(1, 1), AssetId(2, 1)}

\* Bodies of PATCH /api/assets/:id (all accepted by updateAssetSchema, which
\* is insertAssetSchema.partial() plus id: isFavorite is an optional, nullable
\* boolean, version an optional integer).
UpdateBodies == {[isFavorite |-> null], [isFavorite |-> true], [version |-> 2]}

\* The favorite value of the row in rows, undefined when there is none.
FavoriteOf(rows) ==
  IF rows = {} THEN undefined ELSE (CHOOSE row \in rows : TRUE).isFavorite

\* History of the operations on single assets: the entry of the last one
\* answered (n = 2) and of the one answered before it (n = 1). before and
\* after are the favorite values of the row with that id when the request
\* came in and when it was answered, undefined when there was no such row.
Answer(p, op, id, status, before, after) ==
  log' = {[e EXCEPT !.n = 1] : e \in {x \in log : x.p = p /\ x.n = 2}}
           \cup {x \in log : x.p # p}
           \cup {[p |-> p, n |-> 2, op |-> op, id |-> id, status |-> status,
                  before |-> before, after |-> after]}

\* GET /api/assets/:id.
FetchAsset(p) ==
  /\ pc[p] = "idle"
  /\ \E id \in Ids :
       LET rows == GetAsset(assets, id)
       IN  /\ req' = [req EXCEPT ![p] = [op |-> "get", id |-> id]]
           /\ res' = [res EXCEPT ![p] =
                        IF rows = {} THEN [status |-> 404, assets |-> <<>>]
                        ELSE [status |-> 200, assets |-> <<CHOOSE row \in rows : TRUE>>]]
           /\ Answer(p, "get", id, IF rows = {} THEN 404 ELSE 200,
                     FavoriteOf(rows), FavoriteOf(rows))
  /\ UNCHANGED <<drive, folders, driveFiles, localFiles, assets, now, budget,
                 pc, k, loc, uploaded>>

\* PATCH /api/assets/:id/favorite, toggleFavorite up to its update: getAsset;
\* 'Asset not found' is thrown into the route's catch, which answers 500.
ToggleRead(p) ==
  /\ pc[p] = "idle"
  /\ \E id \in Ids :
       LET rows == GetAsset(assets, id)
       IN  /\ req' = [req EXCEPT ![p] = [op |-> "toggle", id |-> id]]
           /\ IF rows = {}
                THEN /\ res' = [res EXCEPT ![p] = [status |-> 500, assets |-> <<>>]]
                     /\ Answer(p, "toggle", id, 500, undefined, undefined)
                     /\ UNCHANGED <<pc, loc>>
                ELSE /\ loc' = [loc EXCEPT ![p] =
                                  [NoLoc EXCEPT !.data = CHOOSE row \in rows : TRUE]]
                     /\ pc' = [pc EXCEPT ![p] = "toggleWrite"]
                     /\ UNCHANGED <<res, log>>
  /\ UNCHANGED <<drive, folders, driveFiles, localFiles, assets, now, budget,
                 k, uploaded>>

\* Variant: the update has no where clause and writes every row
\* (sensitivity of C28).
ToggleWriteAllRows(p) ==
  /\ pc[p] = "toggleWrite"
  /\ LET id      == req[p].id
         updated == {[row EXCEPT !.isFavorite = Not(loc[p].data.isFavorite),
                                 !.updatedAt = now] : row \in assets}
         mine    == GetAsset(updated, id)
     IN  /\ assets' = updated
         /\ res' = [res EXCEPT ![p] =
                      [status |-> 200,
                       assets |-> IF mine = {} THEN <<>>
                                  ELSE <<CHOOSE row \in mine : TRUE>>]]
         /\ Answer(p, "toggle", id, 200, FavoriteOf(GetAsset(assets, id)),
                   FavoriteOf(mine))
  /\ pc' = [pc EXCEPT ![p] = "idle"]
  /\ UNCHANGED <<drive, folders, driveFiles, localFiles, now, budget,
                 req, k, loc, uploaded>>

\* Variant: the update negates the column in the database (set is_favorite
\* = not is_favorite) instead of writing the negation of the value read
\* (sensitivity of C27).
ToggleWriteAtomic(p) ==
  /\ pc[p] = "toggleWrite"
  /\ LET id      == req[p].id
         rows    == GetAsset(assets, id)
         updated == {[row EXCEPT !.isFavorite = Not(row.isFavorite),
                                 !.updatedAt = now] : row \in rows}
     IN  /\ assets' = (assets \ rows) \cup updated
         /\ res' = [res EXCEPT ![p] =
                      [status |-> 200,
                       assets |-> IF updated = {} THEN <<>>
                                  ELSE <<CHOOSE row \in updated : TRUE>>]]
         /\ Answer(p, "toggle", id, 200, FavoriteOf(rows), FavoriteOf(updated))
  /\ pc' = [pc EXCEPT ![p] = "idle"]
  /\ UNCHANGED <<drive, folders, driveFiles, localFiles, now, budget,
                 req, k, loc, uploaded>>

\* toggleFavorite's update ... set({isFavorite: !asset.isFavorite, updatedAt})
\* where id, returning; the route answers with the row returned (with
\* nothing when no row has the id any more).
ToggleWrite(p) ==
  /\ pc[p] = "toggleWrite"
  /\ LET id      == req[p].id
         rows    == GetAsset(assets, id)
         updated == {[row EXCEPT !.isFavorite = Not(loc[p].data.isFavorite),
                                 !.updatedAt = now] : row \in rows}
     IN  /\ assets' = (assets \ rows) \cup updated
         /\ res' = [res EXCEPT ![p] =
                      [status |-> 200,
                       assets |-> IF updated = {} THEN <<>>
                                  ELSE <<CHOOSE row \in updated : TRUE>>]]
         /\ Answer(p, "toggle", id, 200, FavoriteOf(rows), FavoriteOf(updated))
  /\ pc' = [pc EXCEPT ![p] = "idle"]
  /\ UNCHANGED <<drive, folders, driveFiles, localFiles, now, budget,
                 req, k, loc, uploaded>>

\* PATCH /api/assets/:id: updateAssetSchema.parse({...req.body, id}), then
\* updateAsset's update ... set({...updateAsset, updatedAt}) where id,
\* returning.
UpdateAsset(p) ==
  /\ pc[p] = "idle"
  /\ \E id \in Ids, body \in UpdateBodies :
       LET rows    == GetAsset(assets, id)
           updated == {[updatedAt |-> now] @@ body @@ row : row \in rows}
       IN  /\ req' = [req EXCEPT ![p] = [op |-> "update", id |-> id, body |-> body]]
           /\ assets' = (assets \ rows) \cup updated
           /\ res' = [res EXCEPT ![p] =
                        [status |-> 200,
                         assets |-> IF updated = {} THEN <<>>
                                    ELSE <<CHOOSE row \in updated : TRUE>>]]
           /\ Answer(p, "update", id, 200, FavoriteOf(rows), FavoriteOf(updated))
  /\ UNCHANGED <<drive, folders, driveFiles, localFiles, now, budget,
                 pc, k, loc, uploaded>>

\* Variant: the handler deletes the row without calling Drive first
\* (sensitivity of C24).
DeleteReadRowFirst(p) ==
  /\ pc[p] = "idle"
  /\ \E id \in Ids :
       LET rows == GetAsset(assets, id)
       IN  /\ rows # {}
           /\ req' = [req EXCEPT ![p] = [op |-> "delete", id |-> id]]
           /\ loc' = [loc EXCEPT ![p] =
                        [NoLoc EXCEPT !.data = CHOOSE row \in rows : TRUE]]
           /\ pc' = [pc EXCEPT ![p] = "deleteRow"]
  /\ UNCHANGED <<drive, folders, driveFiles, localFiles, assets, now, budget,
                 k, uploaded, res, log>>

\* DELETE /api/assets/:id up to the Drive call: getAsset, 404 when there is
\* no such row.
DeleteRead(p) ==
  /\ pc[p] = "idle"
  /\ \E id \in Ids :
       LET rows == GetAsset(assets, id)
       IN  /\ req' = [req EXCEPT ![p] = [op |-> "delete", id |-> id]]
           /\ IF rows = {}
                THEN /\ res' = [res EXCEPT ![p] = [status |-> 404, assets |-> <<>>]]
                     /\ Answer(p, "delete", id, 404, undefined, undefined)
                     /\ UNCHANGED <<pc, loc>>
                ELSE /\ loc' = [loc EXCEPT ![p] =
                                  [NoLoc EXCEPT !.data = CHOOSE row \in rows : TRUE]]
                     /\ pc' = [pc EXCEPT ![p] = "deleteBlob"]
                     /\ UNCHANGED <<res, log>>
  /\ UNCHANGED <<drive, folders, driveFiles, localFiles, assets, now, budget,
                 k, uploaded>>

\* The Drive files drive.files.delete({fileId}) can remove.
DriveFile(fileId) == {f \in driveFiles : f.id = fileId}

\* DELETE: drive.files.delete({fileId: asset.googleDriveFileId}) answers.
DriveDeleteOk(p) ==
  /\ pc[p] = "deleteBlob"
  /\ drive
  /\ DriveFile(loc[p].data.googleDriveFileId) # {}
  /\ driveFiles' = driveFiles \ DriveFile(loc[p].data.googleDriveFileId)
  /\ pc' = [pc EXCEPT ![p] = "deleteRow"]
  /\ UNCHANGED <<folders, drive, localFiles, assets, now, budget, req, k, loc,
                 uploaded, res, log>>

\* DELETE: the Drive call throws into the route's catch, which answers 500:
\* drive is null (a TypeError), Drive knows no file of that id ('local', or
\* a file already removed), or the call fails.
DriveDeleteFail(p) ==
  /\ pc[p] = "deleteBlob"
  /\ IF ~drive \/ DriveFile(loc[p].data.googleDriveFileId) = {}
       THEN UNCHANGED budget
       ELSE budget > 0 /\ budget' = budget - 1
  /\ res' = [res EXCEPT ![p] = [status |-> 500, assets |-> <<>>]]
  /\ Answer(p, "delete", req[p].id, 500, loc[p].data.isFavorite,
            FavoriteOf(GetAsset(assets, req[p].id)))
  /\ pc' = [pc EXCEPT ![p] = "idle"]
  /\ UNCHANGED <<drive, folders, driveFiles, localFiles, assets, now,
                 req, k, loc, uploaded>>

\* DELETE: storage.deleteAsset, then the answer.
DeleteRow(p) ==
  /\ pc[p] = "deleteRow"
  /\ assets' = assets \ GetAsset(assets, req[p].id)
  /\ res' = [res EXCEPT ![p] = [status |-> 200, assets |-> <<>>]]
  /\ Answer(p, "delete", req[p].id, 200, loc[p].data.isFavorite, undefined)
  /\ pc' = [pc EXCEPT ![p] = "idle"]
  /\ UNCHANGED <<drive, folders, driveFiles, localFiles, now, budget,
                 req, k, loc, uploaded>>

\* DELETE: storage.deleteAsset rejects into the route's catch, which answers
\* 500; the Drive file is gone already.
DeleteAssetFail(p) ==
  /\ pc[p] = "deleteRow"
  /\ budget > 0
  /\ budget' = budget - 1
  /\ res' = [res EXCEPT ![p] = [status |-> 500, assets |-> <<>>]]
  /\ Answer(p, "delete", req[p].id, 500, loc[p].data.isFavorite,
            FavoriteOf(GetAsset(assets, req[p].id)))
  /\ pc' = [pc EXCEPT ![p] = "idle"]
  /\ UNCHANGED <<drive, folders, driveFiles, localFiles, assets, now,
                 req, k, loc, uploaded>>

\* A client opens the Dashboard once the uploads have been answered; from
\* then on it sends its requests one after the other.
OpenDashboard(p) ==
  /\ pc[p] = "off"
  /\ \A q \in Reqs \ {p} : pc[q] = "done"
  /\ pc' = [pc EXCEPT ![p] = "idle"]
  /\ UNCHANGED <<drive, folders, driveFiles, localFiles, assets, now, budget,
                 req, k, loc, uploaded, res, log>>

\* Request 1 uploads two files; once it is answered, a client (slot 2)
\* works on the assets one request after the other.
InitCatalog ==
  /\ drive \in BOOLEAN
  /\ folders = {}
  /\ driveFiles = {}
  /\ assets = {}
  /\ now = 0
  /\ budget = MaxFailures
  /\ req = [p \in Reqs |->
              IF p = 1
                THEN [files |-> [i \in 1..2 |-> UploadedFile(1, i, SpecFiles(2)[i])],
                      body  |-> BaseBody]
                ELSE NoReq]
  /\ localFiles = {<<1, 1>>, <<1, 2>>}
  /\ pc = [p \in Reqs |-> IF p = 1 THEN "recv" ELSE "off"]
  /\ k = [p \in Reqs |-> 0]
  /\ loc = [p \in Reqs |-> NoLoc]
  /\ uploaded = [p \in Reqs |-> <<>>]
  /\ res = [p \in Reqs |-> NoRes]
  /\ log = {}

NextCatalog ==
  \/ \E p \in {1} :
       \/ Receive(p)
       \/ BeginFile(p)
       \/ DriveListOk(p)
       \/ DriveCreateFolderOk(p)
       \/ DriveCreateFileOk(p)
       \/ DriveCreateFileFail(p)
       \/ BuildRecord(p)
       \/ InsertAssetOk(p)
       \/ Respond(p)
  \/ \E p \in {2} :
       \/ OpenDashboard(p)
       \/ FetchAsset(p)
       \/ ToggleRead(p)
       \/ ToggleWrite(p)
       \/ UpdateAsset(p)
       \/ DeleteRead(p)
       \/ DriveDeleteOk(p)
       \/ DriveDeleteFail(p)
       \/ DeleteRow(p)
       \/ DeleteAssetFail(p)

SpecCatalog == InitCatalog /\ [][NextCatalog]_vars

\* Tables of at most MaxRows rows ingested at tick 0, each left by earlier
\* updates and toggles with a favorite value of true, false or NULL.
ToggleTables ==
  UNION {{ {[IngestedRow(1, i, BaseBody, 0) EXCEPT !.isFavorite = fav[i]] : i \in 1..n} :
             fav \in [1..n -> {false, true, null}] } :
         n \in 1..MaxRows}

\* Two clients have the Dashboard open on such a table and toggle favorites,
\* each one request after the other, the two concurrently.
InitToggle ==
  /\ drive = FALSE
  /\ folders = {}
  /\ driveFiles = {}
  /\ assets \in ToggleTables
  /\ localFiles = {<<1, i>> : i \in 1..Cardinality(assets)}
  /\ now = MaxTime
  /\ budget = 0
  /\ pc = [p \in Reqs |-> "idle"]
  /\ req = [p \in Reqs |-> NoReq]
  /\ k = [p \in Reqs |-> 0]
  /\ loc = [p \in Reqs |-> NoLoc]
  /\ uploaded = [p \in Reqs |-> <<>>]
  /\ res = [p \in Reqs |-> NoRes]
  /\ log = {}

NextToggle ==
  \E p \in Reqs :
    \/ ToggleRead(p)
    \/ ToggleWrite(p)

SpecToggle == InitToggle /\ [][NextToggle]_vars

\* ------------------------------------------------------------------ claims

RECURSIVE JoinWith(_, _)
JoinWith(parts, sep) ==
  IF Len(parts) = 0 THEN <<>>
  ELSE IF Len(parts) = 1 THEN parts[1]
  ELSE parts[1] \o <<sep>> \o JoinWith(Tail(parts), sep)

Has(s, c) == \E i \in 1..Len(s) : s[i] = c

Present(x) == x # undefined /\ x # null /\ x # <<>>

TwoDigits(n) == <<Digit(n \div 10), Digit(n % 10)>>

Brand == <<"B", "r", "a", "n", "d">>

\* The resort, or "Brand" when it is absent or empty.
ResortLevel(resort) == IF Present(resort) THEN resort ELSE Brand

\* The eight hierarchy levels of the folder path, in order.
Levels(body, year, month) ==
  <<<<"A", "s", "s", "e", "t", "s">>, body.category, body.region, body.state,
    ResortLevel(body.resort), NumToString(year), TwoDigits(month),
    body.assetType>>

\* Request p has built the folder path of its current file from present,
\* non-empty required attributes.
PathBuilt(p) ==
  /\ drive
  /\ loc[p].folderPath # <<>>
  /\ Present(req[p].body.category)
  /\ Present(req[p].body.region)
  /\ Present(req[p].body.state)
  /\ Present(req[p].body.assetType)

NoSeparator(body) ==
  \A f \in {"category", "region", "state", "resort", "assetType"} :
    ~Has(body[f], "/")

Extension(name) ==
  IF ~Has(name, ".") THEN <<>>
  ELSE LET d == CHOOSE i \in 1..Len(name) :
                  name[i] = "." /\ \A j \in (i + 1)..Len(name) : name[j] # "."
       IN  IF d = 1 \/ name = <<".", ".">> THEN <<>>
           ELSE SubSeq(name, d, Len(name))

\* The stored filename the template gives for a row's own fields.
TemplateFilename(row) ==
  JoinWith(<<NumToString(row.year), TwoDigits(row.month), row.region,
             ResortLevel(row.resort), row.assetType,
             <<"V">> \o NumToString(row.version)>>, "_")
    \o Extension(row.originalName)

\* C2: every asset record's stored filename is
\* {year}_{two-digit month}_{region}_{resort or "Brand"}_{assetType}_V{version}
\* followed by the extension of the original name.
C2_StoredFilename ==
  \A row \in assets : row.filename = TemplateFilename(row)

\* A record of a file with an extension, no resort, a one-digit month.
C2_Witness ==
  \E row \in assets :
    /\ Extension(row.originalName) # <<>>
    /\ Extension(row.originalName) # row.originalName
    /\ row.resort = null
    /\ row.month < 10

\* ----------------------------------------------- claims on the folder walk

Did(p, i, ops) == {e \in log : e.p = p /\ e.k = i /\ e.op \in ops}

\* The createDriveFolder calls that returned.
Walked == {e \in log : e.op = "walked"}

\* The walks that a failed lookup or creation ended.
WalkFailed == {e \in log : e.op \in {"listFail", "mkdirFail"}}

NonEmpty(segs) == {i \in 1..Len(segs) : segs[i] # <<>>}

\* C3: of two createDriveFolder calls that a request completes one after the
\* other for the same path, the later one creates nothing and returns the
\* same leaf id; the first call on the empty store creates one folder per
\* segment, and no two folders share name and parent.
C3_SequentialIdempotent ==
  \A e1 \in Walked : \A e2 \in Walked :
    (e1.p = e2.p /\ e1.k < e2.k /\ e1.path = e2.path)
    => /\ e1.val = e2.val
       /\ Did(e2.p, e2.k, {"mkdir"}) = {}
       /\ e1.k = 1 =>
            /\ Cardinality(Did(e1.p, 1, {"mkdir"}))
                 = Cardinality(NonEmpty(Split(e1.path, "/")))
            /\ \A f \in folders : \A g \in folders :
                 (f.name = g.name /\ f.parent = g.parent) => f = g

\* Both calls of a two-file request have returned for one path, the first
\* having created the folders.
C3_Witness ==
  \E e1 \in Walked : \E e2 \in Walked :
    /\ e1.p = e2.p /\ e1.k = 1 /\ e2.k = 2 /\ e1.path = e2.path
    /\ Cardinality(Did(e1.p, 1, {"mkdir"})) = 8

\* C4: no step removes a folder, and a request whose lookup answered 'not
\* found' creates its folder whatever the store holds by then: the walk
\* neither prevents nor repairs two folders of one name under one parent.
C4_RaceNotPrevented ==
  [][ /\ folders \subseteq folders'
      /\ \A p \in Reqs :
           (pc[p] = "mkdir" /\ pc'[p] # "mkdir")
             => Cardinality(folders') = Cardinality(folders) + 1 ]_vars

\* Two folders of one name under one parent, created by the two requests,
\* each of which had looked the segment up under that parent.
C4_Witness ==
  \E f \in folders : \E g \in folders :
    /\ f.id # g.id /\ f.name = g.name /\ f.parent = g.parent
    /\ f.id[2] # g.id[2]
    /\ \A p \in Reqs :
         \E e \in Did(p, 1, {"list"}) :
           e.val = f.parent /\ loc[p].segs[e.seg] = f.name

\* C5: when a lookup or a creation fails at segment i, the walk issues no
\* call for a later segment and does not return, the error reaches the
\* caller's catch (which uploads nothing for that file), and every folder
\* the walk created before stays in the store.
C5_WalkAborts ==
  \A e \in WalkFailed :
    /\ \A c \in Did(e.p, e.k, {"list", "mkdir", "listFail", "mkdirFail"}) :
         c.seg <= e.seg
    /\ e.op = "listFail" =>
         \A c \in Did(e.p, e.k, {"list", "mkdir"}) : c.seg < e.seg
    /\ e.op = "mkdirFail" =>
         \A c \in Did(e.p, e.k, {"mkdir"}) : c.seg < e.seg
    /\ Did(e.p, e.k, {"walked", "upload"}) = {}
    /\ Did(e.p, e.k, {"fallback"}) # {}
    /\ \A c \in Did(e.p, e.k, {"mkdir"}) : \E f \in folders : f.id = c.val

\* A walk failed after it had created folders, and its request has ended.
C5_Witness ==
  \E e \in WalkFailed :
    /\ e.seg > 2
    /\ Did(e.p, e.k, {"mkdir"}) # {}
    /\ pc[e.p] = "done"

\* ------------------------------------------------- claims on the ingestion

Files(p) == 1..Len(req[p].files)

\* The row the database holds for request p's i-th file, if any.
RowsOf(p, i) == {row \in assets : row.id = AssetId(p, i)}

Ended(p) == pc[p] = "done" /\ Len(req[p].files) > 0

\* C6 as stated: a file that fails validation has had no folder lookup, no
\* folder or file creation, no local-file removal and no insert performed
\* for it.
C6_ValidationBeforeEffects ==
  \A e \in log :
    e.op = "invalid" =>
      Did(e.p, e.k, {"list", "mkdir", "upload", "unlink", "insert"}) = {}

\* C7 as stated: when a request has ended, every file that has no failure of
\* its own (the attributes validate, no insert failed for it) is persisted,
\* whatever happened to its siblings.
C7_SiblingsProcessed ==
  \A p \in Reqs :
    Ended(p) =>
      \A i \in Files(p) :
        ( /\ ValidInsert(req[p].body)
          /\ Did(p, i, {"invalid", "insertFail"}) = {} )
        => RowsOf(p, i) # {}

\* C8 as stated: the response of an ended request reports the batch file by
\* file: the record of every persisted file is in it, in input order, and a
\* batch with persisted files is not answered by a bare failure.
C8_PerFileResults ==
  \A p \in Reqs :
    Ended(p) =>
      /\ \A i \in Files(p) :
           \A row \in RowsOf(p, i) :
             \E n \in 1..Len(res[p].assets) : res[p].assets[n] = row
      /\ \A m \in 1..Len(res[p].assets) : \A n \in 1..Len(res[p].assets) :
           m < n => res[p].assets[m].id[3] < res[p].assets[n].id[3]
      /\ (\E i \in Files(p) : RowsOf(p, i) # {}) => res[p].status = 200

\* A storage reference (of a row, or of the loop's locals) is the local one
\* of `file`.
LocalReference(fileId, folderId, link, file) ==
  /\ fileId = Local
  /\ folderId = Local
  /\ link = <<"/uploads/", file.filename>>

\* C9: for a file whose Drive upload did not take place (Drive unconfigured,
\* or a lookup, folder creation or file creation failed), the local file is
\* retained, the loop goes on to build the record with the local reference,
\* the record persisted for it carries the local reference, and it is
\* persisted unless validation or the insert itself fails.
C9_LocalFallback ==
  \A e \in {x \in log : x.op = "fallback"} :
    LET p    == e.p
        file == req[e.p].files[e.k]
    IN  /\ file.filename \in localFiles
        /\ (k[p] = e.k /\ pc[p] \in {"record", "insert"}) =>
             LocalReference(loc[p].driveFileId, loc[p].driveFolderId,
                            loc[p].driveLink, file)
        /\ \A row \in RowsOf(p, e.k) :
             LocalReference(row.googleDriveFileId, row.googleDriveFolderId,
                            row.driveLink, file)
        /\ ( /\ (k[p] > e.k \/ pc[p] \in {"respond", "done"})
             /\ Did(p, e.k, {"invalid", "insertFail"}) = {} )
           => RowsOf(p, e.k) # {}

\* With Drive configured, a Drive call failed for a file and its record was
\* persisted all the same.
C9_Witness ==
  \E e \in log :
    /\ e.op \in {"listFail", "mkdirFail", "uploadFail"}
    /\ RowsOf(e.p, e.k) # {}
    /\ pc[e.p] = "done"
    /\ res[e.p].status = 200

\* C10: a record's file id and folder id are both 'local', with a link
\* under /uploads/, exactly when no Drive file was created for its file;
\* otherwise they are the id Drive returned for the file and the leaf id the
\* walk returned, the Drive file lies in that folder, and the links are
\* Drive's.
C10_WhollyRemoteOrLocal ==
  \A p \in Reqs : \A i \in Files(p) : \A row \in RowsOf(p, i) :
    LET ups == Did(p, i, {"upload"})
    IN  /\ (row.googleDriveFileId = Local) <=> (row.googleDriveFolderId = Local)
        /\ (row.googleDriveFileId = Local) <=> (ups = {})
        /\ ups = {} =>
             /\ row.driveLink = <<"/uploads/", req[p].files[i].filename>>
             /\ row.versionsLink = <<"/uploads/">>
        /\ \A u \in ups :
             /\ row.googleDriveFileId = u.val
             /\ \E w \in Did(p, i, {"walked"}) : row.googleDriveFolderId = w.val
             /\ \E f \in driveFiles :
                  f.id = row.googleDriveFileId /\ f.parent = row.googleDriveFolderId
             /\ \E d \in folders : d.id = row.googleDriveFolderId
             /\ row.driveLink = <<"webViewLink", u.val>>
             /\ row.versionsLink[2] = row.googleDriveFolderId

\* With Drive configured, one request holds a record with the remote
\* reference and, after a Drive failure, a record with the local one.
C10_Witness ==
  \E p \in Reqs : \E i \in Files(p) : \E j \in Files(p) :
    /\ \E row \in RowsOf(p, i) : row.googleDriveFileId # Local
    /\ \E row \in RowsOf(p, j) : row.googleDriveFileId = Local
    /\ drive

\* The Drive calls (folder lookup, folder creation, file creation) that
\* failed with Drive configured.
DriveCallFailed == {e \in log : e.op \in {"listFail", "mkdirFail", "uploadFail"}}

InsertFailedAfterUpload ==
  {e \in log : e.op = "insertFail" /\ Did(e.p, e.k, {"upload"}) # {}}

\* C12: when the insert fails for a file whose Drive file was created, that
\* Drive file and every folder the walk created for it are still in the
\* store, no asset record references the Drive file, and the request has
\* ended with a failure.
C12_OrphanedBlob ==
  \A e \in InsertFailedAfterUpload :
    /\ \A u \in Did(e.p, e.k, {"upload"}) :
         /\ \E f \in driveFiles : f.id = u.val
         /\ \A row \in assets : row.googleDriveFileId # u.val
    /\ \A c \in Did(e.p, e.k, {"mkdir"}) : \E d \in folders : d.id = c.val
    /\ RowsOf(e.p, e.k) = {}
    /\ pc[e.p] = "done" /\ res[e.p].status = 500

\* A Drive file in a folder the same walk created, referenced by no asset
\* record, after the insert for it failed.
C12_Witness ==
  \E e \in InsertFailedAfterUpload :
    /\ Did(e.p, e.k, {"mkdir"}) # {}
    /\ \E f \in driveFiles :
         /\ f.id = FileId(e.p, e.k)
         /\ \A row \in assets : row.googleDriveFileId # f.id

\* The calendar year and month (1..12) t ticks after the clock's start,
\* counted month by month.
RECURSIVE CalendarAt(_)
CalendarAt(t) ==
  IF t = 0 THEN [year |-> Epoch.year, month |-> Epoch.month0 + 1]
  ELSE LET c == CalendarAt(t - 1)
       IN  IF c.month = 12 THEN [year |-> c.year + 1, month |-> 1]
           ELSE [c EXCEPT !.month = @ + 1]

Listed(p) == pc[p] = "done" /\ res[p].status = 200 /\ req[p].op = "list"

Returned(p) == {res[p].assets[n] : n \in 1..Len(res[p].assets)}

ExactFilters == {"category", "assetType", "region", "state", "resort"}

All == <<"a", "l", "l">>

\* The filters object sets nothing but (possibly) field f, and asks for no
\* page smaller than the table.
OnlyFilter(filters, f) ==
  /\ \A g \in ExactFilters \ {f} : filters[g] = undefined
  /\ filters.startDate = undefined
  /\ filters.endDate = undefined
  /\ filters.search = undefined
  /\ filters.offset \in {undefined, Num(0)}
  /\ \/ filters.limit = undefined
     \/ filters.limit # NaN /\ filters.limit[2] >= Cardinality(assets)

\* C14 as stated: a filter value that is present, non-empty and not "all"
\* lets through only the rows whose field equals it; a value that is absent,
\* empty or "all" excludes no row.
C14_ExactMatchOrAll ==
  \A p \in Reqs : Listed(p) =>
    \A f \in ExactFilters :
      LET v == req[p].filters[f]
      IN  IF Present(v) /\ v # All
            THEN \A row \in Returned(p) : row[f] = v
            ELSE OnlyFilter(req[p].filters, f) => Returned(p) = assets

\* C14 amended: a filter value that is present and non-empty, "all"
\* included, lets through only the rows whose field equals it; a value that
\* is absent or empty excludes no row; and the Dashboard sends no filter
\* whose value is "all" or empty.
C14_ExactMatch ==
  \A p \in Reqs : Listed(p) =>
    \A f \in ExactFilters :
      LET v == req[p].filters[f]
      IN  /\ IF Present(v)
               THEN \A row \in Returned(p) : row[f] = v
               ELSE OnlyFilter(req[p].filters, f) => Returned(p) = assets
          /\ req[p].via = "dashboard" => v = undefined \/ (Present(v) /\ v # All)

\* A category filter "all" reached getAssets and let through the one row
\* whose category is "all", not the other row of the table.
C14_Witness ==
  \E p \in Reqs :
    /\ Listed(p)
    /\ req[p].filters.category = All
    /\ Cardinality(Returned(p)) = 1
    /\ \E row \in assets \ Returned(p) : row.category # All

\* The filters ask for no page smaller than the table.
Unpaged(filters) ==
  /\ filters.offset \in {undefined, Num(0)}
  /\ \/ filters.limit = undefined
     \/ filters.limit # NaN /\ filters.limit[2] >= Cardinality(assets)

\* text holds word as a substring.
Contains(text, word) ==
  \E i \in 1..(Len(text) - Len(word) + 1) :
    SubSeq(text, i, i + Len(word) - 1) = word

\* A row passes every active predicate of the filters: exact match on each
\* exact-match filter given, the inclusive date bounds given, and the search
\* text, if given, a substring of the filename.
PassesEvery(row, filters) ==
  /\ \A f \in ExactFilters : Present(filters[f]) => row[f] = filters[f]
  /\ filters.startDate # undefined => row.uploadDate >= filters.startDate[2]
  /\ filters.endDate # undefined => row.uploadDate <= filters.endDate[2]
  /\ Present(filters.search) => Contains(row.filename, filters.search)

\* C15 as stated: the rows returned (when no page cuts the result) are
\* exactly the rows of the table that pass every active predicate: the
\* exact-match filters, the date bounds and the filename substring search.
C15_AllActiveFilters ==
  \A p \in Reqs :
    (Listed(p) /\ Unpaged(req[p].filters)) =>
      Returned(p) = {row \in assets : PassesEvery(row, req[p].filters)}

\* The upload timestamp lies within the date bounds the filters give.
WithinDates(row, filters) ==
  /\ filters.startDate # undefined => filters.startDate[2] <= row.uploadDate
  /\ filters.endDate # undefined => row.uploadDate <= filters.endDate[2]

\* The filters set nothing but (possibly) the date bounds.
OnlyDates(filters) ==
  /\ \A f \in ExactFilters : filters[f] = undefined
  /\ filters.search = undefined

\* C16: every row returned lies within the date bounds given, both
\* inclusive, a bound not given bounding nothing; and when only date bounds
\* are given (and no page cuts the result) every row within them is
\* returned.
C16_InclusiveDateBounds ==
  \A p \in Reqs : Listed(p) =>
    /\ \A row \in Returned(p) : WithinDates(row, req[p].filters)
    /\ (OnlyDates(req[p].filters) /\ Unpaged(req[p].filters)) =>
         \A row \in assets : WithinDates(row, req[p].filters) => row \in Returned(p)

\* startDate and endDate are the same instant: the row uploaded at that
\* instant is returned, an earlier row is not.
C16_Witness ==
  \E p \in Reqs :
    /\ Listed(p)
    /\ req[p].filters.startDate # undefined
    /\ req[p].filters.startDate = req[p].filters.endDate
    /\ \E row \in Returned(p) : row.uploadDate = req[p].filters.startDate[2]
    /\ \E row \in assets \ Returned(p) : row.uploadDate < req[p].filters.startDate[2]

\* Request p was a listing or an export that the server answered with rows.
Answered(p) ==
  pc[p] = "done" /\ res[p].status = 200 /\ req[p].op \in {"list", "export"}

\* The filters set nothing but (possibly) limit and offset, so that every
\* row of the table matches.
OnlyPage(filters) ==
  /\ \A f \in ExactFilters : filters[f] = undefined
  /\ filters.startDate = undefined
  /\ filters.endDate = undefined
  /\ filters.search = undefined

\* The number of rows at positions O .. O+L-1 of a result of M rows.
PageLen(M, L, O) ==
  IF M - O <= 0 THEN 0 ELSE IF L < M - O THEN L ELSE M - O

\* C17 as stated: with limit L and offset O the rows returned are those at
\* positions O .. O+L-1 of the ordered result, at most L of them; with no
\* limit, and only then, all rows from position O on are returned.
C17_LimitOffsetPage ==
  \A p \in Reqs :
    (Answered(p) /\ OnlyPage(req[p].filters)) =>
      LET f == req[p].filters
          M == Cardinality(assets)
          O == IF f.offset \in {undefined, NaN} THEN 0 ELSE f.offset[2]
      IN  /\ Returned(p) \subseteq assets
          /\ \A i \in 1..Len(res[p].assets) : \A j \in 1..Len(res[p].assets) :
               i < j => res[p].assets[i].uploadDate >= res[p].assets[j].uploadDate
          /\ IF f.limit = undefined
               THEN Len(res[p].assets) = PageLen(M, M, O)
               ELSE f.limit # NaN => Len(res[p].assets) = PageLen(M, f.limit[2], O)

\* The value of the sort key `sort` (a URL parameter) in a row; the upload
\* timestamp for "date" and when no key is given.
SortKey(row, sort) ==
  IF sort = <<"n", "a", "m", "e">> THEN row.filename
  ELSE IF sort = <<"s", "i", "z", "e">> THEN <<row.fileSize>>
  ELSE IF sort = <<"t", "y", "p", "e">> THEN <<row.mimeType.type, row.mimeType.subtype>>
  ELSE <<row.uploadDate>>

\* C18 as stated: the listing is ordered by the requested sort key (so rows
\* of equal key are next to each other, whatever the direction), by upload
\* timestamp descending among rows of equal key, and by upload timestamp
\* descending when the key is date, the default.
C18_SortedByRequestedKey ==
  \A p \in Reqs : Listed(p) =>
    LET a    == res[p].assets
        sort == req[p].query.sort
    IN  /\ \A i \in 1..Len(a) : \A j \in 1..Len(a) : \A l \in 1..Len(a) :
             (i < j /\ j < l /\ SortKey(a[i], sort) = SortKey(a[l], sort))
               => SortKey(a[j], sort) = SortKey(a[i], sort)
        /\ \A i \in 1..Len(a) : \A j \in 1..Len(a) :
             (i < j /\ SortKey(a[i], sort) = SortKey(a[j], sort))
               => a[i].uploadDate >= a[j].uploadDate
        /\ sort \in {undefined, <<"d", "a", "t", "e">>} =>
             \A i \in 1..Len(a) : \A j \in 1..Len(a) :
               i < j => a[i].uploadDate >= a[j].uploadDate

\* ------------------------------------- claims on operations on one asset

\* The last answered operation on a single asset (n = 2) and the one
\* answered before it (n = 1).
History(n) == {e \in log : "n" \in DOMAIN e /\ e.n = n}

\* C19 as stated: of two toggleFavorite calls on one existing record, the
\* one right after the other, the second leaves the favorite value the
\* record had before the first, and the first changes it.
C19_ToggleTwiceRestores ==
  \A e1 \in History(1) : \A e2 \in History(2) :
    ( /\ e1.p = e2.p /\ e1.id = e2.id
      /\ e1.op = "toggle" /\ e2.op = "toggle"
      /\ e1.before # undefined )
    => /\ e1.after # e1.before
       /\ e2.after = e1.before

\* C20 as stated: once a delete request for an existing id has been
\* answered, no row has that id, and a lookup by that id right after it is
\* answered 404, whatever became of the removal of the Drive file.
C20_DeleteThenNotFound ==
  /\ \A e \in History(2) :
       (e.op = "delete" /\ e.before # undefined) => GetAsset(assets, e.id) = {}
  /\ \A e1 \in History(1) : \A e2 \in History(2) :
       ( /\ e1.p = e2.p /\ e1.id = e2.id
         /\ e1.op = "delete" /\ e1.before # undefined
         /\ e2.op = "get" )
       => e2.status = 404

\* The records as ingestion created them (the rows pushed on
\* uploadedAssets).
Created ==
  UNION {{uploaded[p][i] : i \in 1..Len(uploaded[p])} : p \in Reqs}

\* The fields fixed at creation.
FixedFields ==
  {"year", "month", "version", "filename", "googleDriveFileId",
   "googleDriveFolderId", "driveLink", "versionsLink"}

\* C21 as stated: whatever updates and favorite toggles were applied since,
\* a record's year, month, version, stored filename and storage reference
\* are those it was created with.
C21_FixedAtCreation ==
  \A row \in assets : \A made \in Created :
    row.id = made.id => \A f \in FixedFields : row[f] = made[f]

\* The operations answered by the step: the entries new at the head of the
\* history.
AnsweredNow == {e \in History(2)' : e \notin History(2)}

\* C22 as stated: a get, update, favorite toggle or delete of an id that no
\* record has is answered with a failure status, and the step that answers
\* it leaves the records, the Drive store and the local files as they were.
C22_NotFoundFails ==
  [][\A e \in AnsweredNow :
       e.before = undefined
       => /\ e.status >= 400
          /\ UNCHANGED <<assets, folders, driveFiles, localFiles>>]_vars

\* --------------------------------------------------- claims on batches

\* Request p's ingestion has stopped at the file the loop was at: the outer
\* catch answered 500.
Stopped(p) == pc[p] = "done" /\ res[p].status = 500

\* The bytes of row, the record of request p's i-th file, are where its
\* storage reference points.
BytesAt(row, p, i) ==
  IF row.googleDriveFileId = Local
    THEN req[p].files[i].filename \in localFiles
    ELSE \E f \in driveFiles : f.id = row.googleDriveFileId

\* C23: when an ingestion has stopped at file K, every file before K has
\* its record and the bytes the record points to, and for no file after K
\* was anything done: no history entry, no record, no Drive file, and its
\* local file is still in uploads/.
C23_StopKeepsBeforeSkipsAfter ==
  \A p \in Reqs :
    Stopped(p) =>
      /\ \A i \in 1..(k[p] - 1) :
           /\ RowsOf(p, i) # {}
           /\ \A row \in RowsOf(p, i) : BytesAt(row, p, i)
      /\ \A i \in (k[p] + 1)..Len(req[p].files) :
           /\ Did(p, i, {e.op : e \in log}) = {}
           /\ RowsOf(p, i) = {}
           /\ \A f \in driveFiles : f.id # FileId(p, i)
           /\ req[p].files[i].filename \in localFiles

\* An ingestion of three files has stopped at the second: the first is
\* committed, the third was never attempted.
C23_Witness ==
  \E p \in Reqs :
    /\ Stopped(p)
    /\ k[p] = 2
    /\ Len(req[p].files) = 3
    /\ RowsOf(p, 1) # {}

\* ------------------------------------------------------ claims on delete

\* The rows the step removes: their id is no row's any more.
Removed == {row \in assets : \A r \in assets' : r.id # row.id}

\* The rows whose storage reference names a Drive file that Drive no longer
\* has.
BlobGone == {row \in assets : /\ row.googleDriveFileId # Local
                              /\ DriveFile(row.googleDriveFileId) = {}}

\* C24: a record is removed only once Drive has removed its file (never
\* with the removal still to be attempted); between the two removals, and
\* for good when the second fails, the record is there and the file is not.
C24_BlobBeforeRecord ==
  [][\A row \in Removed : row \in BlobGone]_vars

\* A delete request was answered with a failure after Drive removed the
\* file: the record is still in the table.
C24_Witness ==
  \E e \in History(2) :
    /\ e.op = "delete" /\ e.status = 500
    /\ GetAsset(assets, e.id) # {}
    /\ GetAsset(assets, e.id) \subseteq BlobGone

\* The delete requests answered last whose record, as the handler read it,
\* has the local fallback reference, or that were issued with Drive not
\* configured.
LocalDeletes ==
  {e \in History(2) :
     /\ e.op = "delete" /\ e.before # undefined
     /\ pc[e.p] = "idle"
     /\ (~drive \/ loc[e.p].data.googleDriveFileId = Local)}

\* C25 as stated: a delete request for an existing record with the local
\* reference, or with Drive unconfigured, is answered with success and the
\* record is removed.
C25_LocalAssetDeletable ==
  \A e \in LocalDeletes : e.status = 200 /\ GetAsset(assets, e.id) = {}

\* ----------------------------------------------------- claims on hasMore

\* The number of rows of the table that match the filters.
Matching(filters) == Cardinality({row \in assets : PassesEvery(row, filters)})

\* C26 as stated: the hasMore flag of a listing with numeric offset and
\* limit is true exactly when the filtered result has a row at position
\* offset + limit or later.
C26_HasMoreOfFilteredResult ==
  \A p \in Reqs :
    ( /\ Listed(p)
      /\ req[p].filters.offset \notin {undefined, NaN}
      /\ req[p].filters.limit \notin {undefined, NaN} )
    => ( res[p].hasMore
           <=> Matching(req[p].filters)
                 > req[p].filters.offset[2] + req[p].filters.limit[2] )

\* ------------------------------------------- claims on concurrent toggles

\* Client p's first request was a favorite toggle of an existing record and
\* has been answered; p has sent nothing since.
ToggledOnce(p) ==
  /\ pc[p] = "idle"
  /\ \A e \in History(1) : e.p # p
  /\ \E e \in History(2) : e.p = p /\ e.op = "toggle" /\ e.status = 200

\* The two clients toggled the same record once each and both read it
\* before either wrote: they read the same row (a write changes the row).
Interleaved(p, q) ==
  /\ p # q
  /\ ToggledOnce(p) /\ ToggledOnce(q)
  /\ req[p].id = req[q].id
  /\ loc[p].data = loc[q].data

\* C27: after two toggleFavorite calls on one record that both read before
\* either wrote, both have written the negation of the value they read, and
\* the record holds that value: it is flipped once, not back at the value
\* it had.
C27_InterleavedTogglesFlipOnce ==
  \A p \in Reqs : \A q \in Reqs :
    Interleaved(p, q) =>
      /\ \A e \in History(2) : e.after = Not(loc[p].data.isFavorite)
      /\ \A row \in GetAsset(assets, req[p].id) :
           /\ row.isFavorite = Not(loc[p].data.isFavorite)
           /\ row.isFavorite # loc[p].data.isFavorite

\* Two interleaved toggles of a record that was a favorite have been
\* answered, and a second record is in the table.
C27_Witness ==
  /\ Interleaved(1, 2)
  /\ loc[1].data.isFavorite = true
  /\ Cardinality(assets) = 2

\* ------------------------------------------------ claims on toggle's frame

\* The step is the write of client p's toggleFavorite.
ToggleWrites(p) == pc[p] = "toggleWrite" /\ pc'[p] = "idle"

\* C28: the write of a toggleFavorite on an existing record leaves every
\* other record as it was, leaves every field of the record but isFavorite
\* and updatedAt as it was, and leaves the Drive folders and files and the
\* local files as they were.
C28_ToggleFrame ==
  [][\A p \in Reqs :
       ToggleWrites(p) =>
         /\ UNCHANGED <<folders, driveFiles, localFiles>>
         /\ {row.id : row \in assets'} = {row.id : row \in assets}
         /\ Cardinality(assets') = Cardinality(assets)
         /\ \A row \in assets :
              IF row.id # req[p].id
                THEN row \in assets'
                ELSE \A after \in GetAsset(assets', row.id) :
                       \A f \in DOMAIN row \ {"isFavorite", "updatedAt"} :
                         after[f] = row[f]]_vars

\* A toggle of an existing record has been answered while the table holds a
\* second record and Drive holds files.
C28_Witness ==
  /\ \E e \in History(2) : e.op = "toggle" /\ e.status = 200 /\ e.after # e.before
  /\ Cardinality(assets) = 2
  /\ driveFiles # {}

\* ------------------------------------------- claims on where the bytes are

\* C29: the local file of an uploaded file is gone only if Drive holds the
\* file created for it, and every record's bytes are where its storage
\* reference points: a record with the local reference has its local file
\* and links to it, a record with a remote reference has its Drive file.
C29_BytesWhereReferencePoints ==
  \A p \in Reqs : \A i \in Files(p) :
    /\ req[p].files[i].filename \notin localFiles
         => \E f \in driveFiles : f.id = FileId(p, i)
    /\ \A row \in RowsOf(p, i) :
         /\ BytesAt(row, p, i)
         /\ row.googleDriveFileId = Local
              => row.driveLink = LocalLink(req[p].files[i])

\* A request has persisted one record with the local reference after a
\* Drive failure and one with a remote reference whose local file is gone.
C29_Witness ==
  \E p \in Reqs :
    /\ \E row \in RowsOf(p, 1) : row.googleDriveFileId = Local
    /\ \E row \in RowsOf(p, 2) : row.googleDriveFileId # Local
    /\ req[p].files[2].filename \notin localFiles
    /\ drive

\* ------------------------------------------ claims on filename uniqueness

\* What the stored filename is a function of, for a row.
NameInputs(row) ==
  <<row.year, row.month, row.region, row.resort, row.assetType, row.version,
    Extension(row.originalName)>>

====
